---- MODULE Spec2Model ----
(***************************************************************************)
(* A model of the factorial crate: the checked and unchecked factorial and *)
(* double factorial of lib.rs (integers and f32), the table generator of   *)
(* build.rs and examples/build.rs, the tables of array.rs, and the         *)
(* recursive engine of the specification over those tables.                *)
(*                                                                         *)
(* Operand values reach 2^128 and beyond, so they are held as sequences of *)
(* decimal limbs (least significant first, no leading zero limb).           *)
(***************************************************************************)
EXTENDS Integers, Sequences, FiniteSets, TLC

\* ------------------------------------------------------------------------
\* Bounds of the model
\* ------------------------------------------------------------------------

\* Operands of the integer entry points range over 0..MaxN (and the tests' 100).
MaxN == 60

\* Signed operands range down to -MaxNeg.
MaxNeg == 6

\* ------------------------------------------------------------------------
\* Multi-limb naturals
\* ------------------------------------------------------------------------

\* One limb holds three decimal digits.
Base == 10 * 100

Zero == << >>

One == <<1>>

\* The limbs of a natural k below 2^31.
BigOf(k) ==
    IF k = 0 THEN Zero
    ELSE IF k < Base THEN <<k>>
    ELSE IF k < Base * Base THEN <<k % Base, k \div Base>>
    ELSE IF k < Base * Base * Base
         THEN <<k % Base, (k \div Base) % Base, k \div (Base * Base)>>
    ELSE <<k % Base, (k \div Base) % Base, (k \div (Base * Base)) % Base,
           k \div (Base * Base * Base)>>

\* Column j of c, 0 outside c.
Column(c, j) == IF j >= 1 /\ j <= Len(c) THEN c[j] ELSE 0

\* The columns c, each a natural below 2^31, with every column's higher digits
\* moved to the columns they belong to: n columns, each below 4 * Base.
Spread(c, n) ==
    SubSeq([j \in 1..n |->
               (Column(c, j) % Base)
               + ((Column(c, j - 1) \div Base) % Base)
               + ((Column(c, j - 2) \div (Base * Base)) % Base)
               + (Column(c, j - 3) \div (Base * Base * Base))], 1, n)

\* The carry into column j of columns that are each at most 2 * Base - 2: 1 when
\* a column below j passes Base - 1 and every column between the two is Base - 1.
CarryInto(c, j) ==
    IF \E m \in 1..(j - 1) :
          /\ c[m] >= Base
          /\ \A q \in (m + 1)..(j - 1) : c[q] = Base - 1
    THEN 1 ELSE 0

\* The limbs of columns that are each at most 2 * Base - 2.
Settle(c) ==
    SubSeq([j \in 1..Len(c) |-> (c[j] + CarryInto(c, j)) % Base], 1, Len(c))

\* c without its leading zero limbs.
Trim(c) ==
    LET nz == {j \in 1..Len(c) : c[j] /= 0}
    IN  IF nz = {} THEN Zero
        ELSE SubSeq(c, 1, CHOOSE j \in nz : \A q \in nz : q <= j)

\* The number whose columns are c, each a natural below 2^31.
Carry(c) ==
    LET n == Len(c) + 4
    IN  Trim(Settle(Spread(Spread(c, n), n)))

\* a * k for a natural k below 2 * 10^6.
BigMulSmall(a, k) ==
    Carry([j \in 1..Len(a) |-> a[j] * k])

\* a + b.
BigAdd(a, b) ==
    LET n == IF Len(a) > Len(b) THEN Len(a) ELSE Len(b)
    IN  Carry([j \in 1..n |-> Column(a, j) + Column(b, j)])

RECURSIVE SumProducts(_, _, _, _, _)
\* The sum of a[m] * b[j + 1 - m] for m in lo..hi. Taken by halves.
SumProducts(a, b, j, lo, hi) ==
    IF lo > hi THEN 0
    ELSE IF lo = hi THEN a[lo] * b[j + 1 - lo]
    ELSE LET mid == (lo + hi) \div 2
         IN  SumProducts(a, b, j, lo, mid) + SumProducts(a, b, j, mid + 1, hi)

\* a * b, for a and b of at most 2000 limbs.
BigMul(a, b) ==
    IF Len(a) = 0 \/ Len(b) = 0 THEN Zero
    ELSE Carry(SubSeq([j \in 1..(Len(a) + Len(b) - 1) |->
                          SumProducts(a, b, j,
                                      IF j > Len(b) THEN j + 1 - Len(b) ELSE 1,
                                      IF j < Len(a) THEN j ELSE Len(a))],
                      1, Len(a) + Len(b) - 1))

\* a < b: by length, then by the most significant limb that differs.
BigLt(a, b) ==
    IF Len(a) /= Len(b)
    THEN Len(a) < Len(b)
    ELSE LET D == {k \in 1..Len(a) : a[k] /= b[k]}
         IN  /\ D /= {}
             /\ LET m == CHOOSE k \in D : \A j \in D : j <= k
                IN  a[m] < b[m]

BigLeq(a, b) == a = b \/ BigLt(a, b)

\* ------------------------------------------------------------------------
\* Option<T>
\* ------------------------------------------------------------------------

None == [some |-> FALSE, val |-> Zero]

Some(v) == [some |-> TRUE, val |-> v]

\* ------------------------------------------------------------------------
\* The operand types of lib.rs
\* ------------------------------------------------------------------------

\* The fixed widths of Rust's primitive integers.
Widths == {8, 16, 32, 64, 128}

\* The four integer implementations.
Traits == {"UnsignedFactorial", "SignedFactorial",
           "UnsignedDoubleFactorial", "SignedDoubleFactorial"}

IsSigned(t) == t \in {"SignedFactorial", "SignedDoubleFactorial"}

IsDouble(t) == t \in {"UnsignedDoubleFactorial", "SignedDoubleFactorial"}

\* A signed type taken to hold as much as the unsigned type of its width.
ValueBits_nosign(t, w) == w

\* The number of value bits of a type: a signed type gives one bit to the sign.
ValueBits(t, w) == IF IsSigned(t) THEN w - 1 ELSE w

\* 2^b, the first value a type of b value bits cannot hold, for the value bits of
\* u8..u128 and of i8..i128.
\* 2^7 = 128
Limit7 == <<128>>

\* 2^8 = 256
Limit8 == <<256>>

\* 2^15 = 32768
Limit15 == <<768, 32>>

\* 2^16 = 65536
Limit16 == <<536, 65>>

\* 2^31 = 2147483648
Limit31 == <<648, 483, 147, 2>>

\* 2^32 = 4294967296
Limit32 == <<296, 967, 294, 4>>

\* 2^63 = 9223372036854775808
Limit63 == <<808, 775, 854, 36, 372, 223, 9>>

\* 2^64 = 18446744073709551616
Limit64 == <<616, 551, 709, 73, 744, 446, 18>>

\* 2^127 = 170141183460469231731687303715884105728
Limit127 == <<728, 105, 884, 715, 303, 687, 731, 231, 469, 460, 183, 141, 170>>

\* 2^128 = 340282366920938463463374607431768211456
Limit128 == <<456, 211, 768, 431, 607, 374, 463, 463, 938, 920, 366, 282, 340>>

TypeLimit(b) ==
    CASE b = 7 -> Limit7
      [] b = 8 -> Limit8
      [] b = 15 -> Limit15
      [] b = 16 -> Limit16
      [] b = 31 -> Limit31
      [] b = 32 -> Limit32
      [] b = 63 -> Limit63
      [] b = 64 -> Limit64
      [] b = 127 -> Limit127
      [] b = 128 -> Limit128

\* CheckedMul::checked_mul of a non-negative acc and a positive index k in a type
\* of b value bits: the product, or None when it passes the type's maximum.
\* The product with the overflow check left out.
checked_mul_unchecked(a, k, b) == Some(BigMulSmall(a, k))

checked_mul(a, k, b) ==
    LET prod == BigMulSmall(a, k)
    IN  IF BigLt(prod, TypeLimit(b)) THEN Some(prod) ELSE None

\* The messages of the two unchecked entry points.
FactorialMsg == "Overflow computing factorial"

DoubleFactorialMsg == "Overflow computing double factorial"

\* One message for both entry points.
ExpectMsg_same(t) == FactorialMsg

ExpectMsg(t) == IF IsDouble(t) THEN DoubleFactorialMsg ELSE FactorialMsg

\* Option::expect: the value, or a panic with the message.
expect(opt, msg) ==
    IF opt.some
    THEN [kind |-> "value", val |-> opt.val, msg |-> ""]
    ELSE [kind |-> "panic", val |-> Zero, msg |-> msg]

\* The first index with the parities exchanged.
StartIndex_swapped(t, x) ==
    IF IsDouble(t) THEN (IF x % 2 = 0 THEN 1 ELSE 2) ELSE 2

\* The first index of the loop.
StartIndex(t, x) ==
    IF IsDouble(t) THEN (IF x % 2 = 0 THEN 2 ELSE 1) ELSE 2

\* The step of the loop index.
IndexStep(t) == IF IsDouble(t) THEN 2 ELSE 1

\* The operand of the tests too_large and too_large_double_fact.
TooLarge == 100

\* The operands a call is made with.
Operands(t) ==
    (0..MaxN) \cup {TooLarge} \cup (IF IsSigned(t) THEN (-MaxNeg)..(-1) ELSE {})

\* ------------------------------------------------------------------------
\* The floating-point operand type T: Float (f32)
\* ------------------------------------------------------------------------

\* The bits of the significand of f32, the hidden bit included.
MantBits == 24

\* The largest exponent of a normalised significand taken as an integer:
\* 2^24 * 2^104 = 2^128 is the first value that is no longer finite.
MaxExp == 104

\* A value of the type: NaN, an infinity, a zero or (-1)^neg * m * 2^e with
\* 2^23 <= m < 2^24.
FNaN == [cls |-> "nan", neg |-> FALSE, m |-> 0, e |-> 0]

FInf(neg) == [cls |-> "inf", neg |-> neg, m |-> 0, e |-> 0]

FZero(neg) == [cls |-> "zero", neg |-> neg, m |-> 0, e |-> 0]

\* The number of bits of k > 0.
BitLen(k) == CHOOSE b \in 1..31 : 2^(b - 1) <= k /\ (b = 31 \/ k < 2^b)

\* m / 2^k rounded to the nearest integer, ties to the even one.
RoundShift(m, k) ==
    LET q == m \div 2^k
        r == m % 2^k
        half == 2^(k - 1)
    IN  IF r > half \/ (r = half /\ q % 2 = 1) THEN q + 1 ELSE q

\* (-1)^neg * m * 2^e for an integer 0 < m < 2^31, rounded to the type; a value
\* of 2^128 or more becomes an infinity.
Normalize(neg, m, e) ==
    LET bl == BitLen(m)
        k == bl - MantBits
        q == IF k <= 0 THEN m * 2^(-k) ELSE RoundShift(m, k)
        carry == q = 2^MantBits
        m1 == IF carry THEN 2^(MantBits - 1) ELSE q
        e1 == IF carry THEN e + k + 1 ELSE e + k
    IN  IF e1 > MaxExp THEN FInf(neg)
        ELSE [cls |-> "fin", neg |-> neg, m |-> m1, e |-> e1]

\* The integer k as a value of the type (exact for |k| < 2^24).
FromInt(k) ==
    IF k = 0 THEN FZero(FALSE)
    ELSE Normalize(k < 0, IF k < 0 THEN -k ELSE k, 0)

\* Negation.
FNeg(x) == IF x.cls = "nan" THEN x ELSE [x EXCEPT !.neg = ~x.neg]

\* The magnitude of an integer-valued x below 2^24, as an integer.
Magnitude(x) ==
    IF x.cls = "zero" THEN 0
    ELSE IF x.e >= 0 THEN x.m * 2^x.e ELSE x.m \div 2^(-x.e)

\* An integer-valued x below 2^24 in magnitude, as an integer.
ToInt(x) == IF x.neg THEN -Magnitude(x) ELSE Magnitude(x)

\* x.fract() != zero: the fractional part of an infinity is NaN, and NaN != 0.
FractNonZero(x) ==
    CASE x.cls = "nan" -> TRUE
      [] x.cls = "inf" -> TRUE
      [] x.cls = "zero" -> FALSE
      [] OTHER -> IF x.e >= 0 THEN FALSE
                  ELSE IF -x.e >= MantBits THEN TRUE
                  ELSE x.m % 2^(-x.e) /= 0

\* x < zero.
FNegative(x) == x.cls \in {"fin", "inf"} /\ x.neg

\* x % two == zero, for an x without fractional part.
FEven(x) ==
    CASE x.cls = "zero" -> TRUE
      [] x.cls = "fin" -> IF x.e >= 1 THEN TRUE ELSE Magnitude(x) % 2 = 0
      [] OTHER -> FALSE

\* x * k for an integer 0 < k < 2^7: the exact product rounded to the type.
FMulSmall(x, k) ==
    IF x.cls = "fin" THEN Normalize(x.neg, x.m * k, x.e) ELSE x

\* (-one).powf(y) for an integer y.
PowNegOne(y) == IF y % 2 = 0 THEN 1 ELSE -1

RECURSIVE DivBits(_, _, _, _)
\* Long division of r by m, r < m: quotient bits are produced until the quotient
\* q has MantBits + 1 of them; the result is the quotient, the number of bits
\* produced and whether a remainder is left.
DivBits(r, m, q, shifts) ==
    IF q >= 2^MantBits THEN [q |-> q, shifts |-> shifts, sticky |-> r /= 0]
    ELSE IF 2 * r >= m THEN DivBits(2 * r - m, m, 2 * q + 1, shifts + 1)
         ELSE DivBits(2 * r, m, 2 * q, shifts + 1)

\* a / b for an integer-valued a, 0 < |a| < 2^23, and a b that is finite and
\* not zero, or infinite: the exact quotient rounded to the nearest value, ties
\* to even (the quotients of the model are at least 2^(-126): none is subnormal).
FDiv(a, b) ==
    LET neg == a.neg /= b.neg
    IN  IF b.cls = "inf" THEN FZero(neg)
        ELSE LET d == DivBits(Magnitude(a), b.m, 0, 0)
                 q == d.q \div 2
                 up == d.q % 2 = 1 /\ (d.sticky \/ q % 2 = 1)
                 m1 == IF up THEN q + 1 ELSE q
                 carry == m1 = 2^MantBits
                 e1 == 1 - d.shifts - b.e + (IF carry THEN 1 ELSE 0)
             IN  [cls |-> "fin", neg |-> neg,
                  m |-> IF carry THEN 2^(MantBits - 1) ELSE m1, e |-> e1]

\* ------------------------------------------------------------------------
\* State
\* ------------------------------------------------------------------------

VARIABLES
    pc,        \* "idle", "loop", "returned", "done"
    trait,     \* the implementation called
    entry,     \* "checked" or "unchecked"
    bits,      \* the width of the operand type
    self,      \* the operand
    acc,       \* the accumulator of the loop
    i,         \* the index of the loop
    checked,   \* the Option the checked entry point returned
    outcome,   \* what the caller gets
    \* the table generator
    bpc,           \* where the generator is
    gn,            \* main: n
    factorials,    \* main: the vector of the first loop
    prime_swings,  \* main: the vector of the second loop
    f_n,           \* checked_naive_factorial: n
    f_acc,         \* checked_naive_factorial: acc
    f_i,           \* checked_naive_factorial: i
    f_ret,         \* checked_naive_factorial: the Option returned
    s_n,           \* prime_swing: n
    s_bits,        \* prime_swing: the value bits of its operand type
    caller,        \* who called prime_swing
    visited,       \* the primes each band has visited so far
    product,       \* prime_swing: product
    cursor,        \* prime_swing: where the current prime_range resumes
    s_ret,         \* prime_swing: the Option returned
    \* the recursive factorial engine
    epc,           \* where the engine is
    e_n,           \* the n it was called with
    e_bits,        \* the value bits of its operand type
    e_stack,       \* the arguments of the calls that wait for their sub-result
    e_val,         \* the sub-result
    e_ret,         \* the Option returned
    \* FloatDoubleFactorial
    dpc,           \* "idle", "loop", "returned", "done"
    d_entry,       \* "checked" or "unchecked"
    d_self,        \* the operand
    d_acc,         \* the accumulator of the loop
    d_i,           \* the index of the loop
    d_checked,     \* the Option the checked entry point returned
    d_outcome      \* what the caller gets

libvars == <<pc, trait, entry, bits, self, acc, i, checked, outcome>>

swingvars == <<s_n, s_bits, caller, visited, product, cursor, s_ret>>

genvars == <<bpc, gn, factorials, prime_swings, f_n, f_acc, f_i, f_ret, swingvars>>

mainvars == <<gn, factorials, prime_swings, f_n, f_acc, f_i, f_ret>>

engvars == <<epc, e_n, e_bits, e_stack, e_val, e_ret>>

floatvars == <<dpc, d_entry, d_self, d_acc, d_i, d_checked, d_outcome>>

\* What the integer implementations of lib.rs leave alone.
notlib == <<genvars, engvars, floatvars>>

\* What the generator leaves alone.
notgen == <<libvars, engvars, floatvars>>

vars == <<libvars, genvars, engvars, floatvars>>

Pending == [kind |-> "pending", val |-> Zero, msg |-> ""]

\* No call of the library is in progress.
LibIdle ==
    /\ pc = "idle"
    /\ trait = "UnsignedFactorial"
    /\ entry = "checked"
    /\ bits = 32
    /\ self = 0
    /\ acc = One
    /\ i = 2
    /\ checked = None
    /\ outcome = Pending

\* The generator is not running.
GenIdle ==
    /\ bpc = "idle"
    /\ gn = 0
    /\ factorials = << >>
    /\ prime_swings = << >>
    /\ f_n = 0
    /\ f_acc = One
    /\ f_i = 2
    /\ f_ret = None
    /\ s_n = 0
    /\ s_bits = 128
    /\ caller = "none"
    /\ visited = [A |-> << >>, B |-> << >>, C |-> << >>]
    /\ product = One
    /\ cursor = 0
    /\ s_ret = None

FNone == [some |-> FALSE, val |-> FZero(FALSE)]

\* FloatDoubleFactorial is not being called.
FloatIdle ==
    /\ dpc = "idle"
    /\ d_entry = "checked"
    /\ d_self = FZero(FALSE)
    /\ d_acc = FromInt(1)
    /\ d_i = FromInt(1)
    /\ d_checked = FNone
    /\ d_outcome = [kind |-> "pending", val |-> FZero(FALSE), msg |-> ""]

\* The engine is not running.
EngIdle ==
    /\ epc = "idle"
    /\ e_n = 0
    /\ e_bits = 128
    /\ e_stack = << >>
    /\ e_val = One
    /\ e_ret = None

Init == LibIdle /\ GenIdle /\ EngIdle /\ FloatIdle

\* A call of checked_factorial, factorial, checked_double_factorial or
\* double_factorial, up to the loop: the signed implementations return None for a
\* negative operand.
Call(t, e, w, x) ==
    /\ trait' = t
    /\ entry' = e
    /\ bits' = w
    /\ self' = x
    /\ outcome' = Pending
    /\ IF IsSigned(t) /\ x < 0
       THEN /\ checked' = None
            /\ pc' = "returned"
            /\ UNCHANGED <<acc, i>>
       ELSE /\ acc' = One
            /\ i' = StartIndex(t, x)
            /\ pc' = "loop"
            /\ UNCHANGED checked
    /\ UNCHANGED notlib

\* One iteration of the while loop.
LoopStep ==
    /\ pc = "loop"
    /\ i <= self
    /\ LET acc_i == checked_mul(acc, i, ValueBits(trait, bits))
       IN  IF acc_i.some
           THEN /\ acc' = acc_i.val
                /\ i' = i + IndexStep(trait)
                /\ UNCHANGED <<pc, checked>>
           ELSE /\ checked' = None
                /\ pc' = "returned"
                /\ UNCHANGED <<acc, i>>
    /\ UNCHANGED <<trait, entry, bits, self, outcome>>
    /\ UNCHANGED notlib

\* The loop ends: Some(acc).
LoopExit ==
    /\ pc = "loop"
    /\ i > self
    /\ checked' = Some(acc)
    /\ pc' = "returned"
    /\ UNCHANGED <<trait, entry, bits, self, acc, i, outcome>>
    /\ UNCHANGED notlib

\* The checked entry point hands its Option to the caller.
ReturnChecked ==
    /\ pc = "returned"
    /\ entry = "checked"
    /\ outcome' = [kind |-> "option", val |-> checked.val, msg |-> ""]
    /\ pc' = "done"
    /\ UNCHANGED <<trait, entry, bits, self, acc, i, checked>>
    /\ UNCHANGED notlib

\* The unchecked entry point: expect on the checked result.
ReturnUnchecked ==
    /\ pc = "returned"
    /\ entry = "unchecked"
    /\ outcome' = expect(checked, ExpectMsg(trait))
    /\ pc' = "done"
    /\ UNCHANGED <<trait, entry, bits, self, acc, i, checked>>
    /\ UNCHANGED notlib

\* A caller makes one call, of any implementation, entry point, width and
\* operand.
Invoke ==
    /\ pc = "idle"
    /\ \E t \in Traits, e \in {"checked", "unchecked"}, w \in Widths :
          \E x \in Operands(t) : Call(t, e, w, x)

Next ==
    \/ Invoke
    \/ LoopStep
    \/ LoopExit
    \/ ReturnChecked
    \/ ReturnUnchecked

Spec == Init /\ [][Next]_vars

\* array.rs: SMALL_FACTORIAL, entry i at index i + 1, each in limbs.
SMALL_FACTORIAL == <<
    <<1>>,    \* 0: 1
    <<1>>,    \* 1: 1
    <<2>>,    \* 2: 2
    <<6>>,    \* 3: 6
    <<24>>,    \* 4: 24
    <<120>>,    \* 5: 120
    <<720>>,    \* 6: 720
    <<40, 5>>,    \* 7: 5040
    <<320, 40>>,    \* 8: 40320
    <<880, 362>>,    \* 9: 362880
    <<800, 628, 3>>,    \* 10: 3628800
    <<800, 916, 39>>,    \* 11: 39916800
    <<600, 1, 479>>,    \* 12: 479001600
    <<800, 20, 227, 6>>,    \* 13: 6227020800
    <<200, 291, 178, 87>>,    \* 14: 87178291200
    <<0, 368, 674, 307, 1>>,    \* 15: 1307674368000
    <<0, 888, 789, 922, 20>>,    \* 16: 20922789888000
    <<0, 96, 428, 687, 355>>,    \* 17: 355687428096000
    <<0, 728, 705, 373, 402, 6>>,    \* 18: 6402373705728000
    <<0, 832, 408, 100, 645, 121>>,    \* 19: 121645100408832000
    <<0, 640, 176, 8, 902, 432, 2>>,    \* 20: 2432902008176640000
    <<0, 440, 709, 171, 942, 90, 51>>,    \* 21: 51090942171709440000
    <<0, 680, 607, 777, 727, 0, 124, 1>>,    \* 22: 1124000727777607680000
    <<0, 640, 976, 884, 738, 16, 852, 25>>,    \* 23: 25852016738884976640000
    <<0, 360, 439, 239, 733, 401, 448, 620>>,    \* 24: 620448401733239439360000
    <<0, 0, 984, 985, 330, 43, 210, 511, 15>>,    \* 25: 15511210043330985984000000
    <<0, 0, 584, 635, 605, 126, 461, 291, 403>>,    \* 26: 403291461126605635584000000
    <<0, 0, 768, 160, 352, 418, 450, 869, 888, 10>>,    \* 27: 10888869450418352160768000000
    <<0, 0, 504, 501, 860, 713, 611, 344, 888, 304>>,    \* 28: 304888344611713860501504000000
    <<0, 0, 616, 543, 954, 701, 739, 993, 761, 841, 8>>,    \* 29: 8841761993739701954543616000000
    <<0, 0, 480, 308, 636, 58, 191, 812, 859, 252, 265>>,    \* 30: 265252859812191058636308480000000
    <<0, 0, 880, 562, 725, 817, 922, 177, 654, 838, 222, 8>>,    \* 31: 8222838654177922817725562880000000
    <<0, 0, 160, 12, 218, 167, 530, 693, 933, 836, 130, 263>>,    \* 32: 263130836933693530167218012160000000
    <<0, 0, 280, 401, 194, 518, 495, 886, 811, 618, 317, 683, 8>>,    \* 33: 8683317618811886495518194401280000000
    <<0, 0, 520, 643, 609, 618, 847, 140, 604, 39, 799, 232, 295>>    \* 34: 295232799039604140847618609643520000000
>>

\* array.rs: SMALL_PRIME_SWING, entry i at index i + 1, each in limbs.
SMALL_PRIME_SWING == <<
    <<1>>,    \* 0: 1
    <<1>>,    \* 1: 1
    <<1>>,    \* 2: 1
    <<3>>,    \* 3: 3
    <<3>>,    \* 4: 3
    <<15>>,    \* 5: 15
    <<5>>,    \* 6: 5
    <<35>>,    \* 7: 35
    <<35>>,    \* 8: 35
    <<315>>,    \* 9: 315
    <<63>>,    \* 10: 63
    <<693>>,    \* 11: 693
    <<231>>,    \* 12: 231
    <<3, 3>>,    \* 13: 3003
    <<429>>,    \* 14: 429
    <<435, 6>>,    \* 15: 6435
    <<435, 6>>,    \* 16: 6435
    <<395, 109>>,    \* 17: 109395
    <<155, 12>>,    \* 18: 12155
    <<945, 230>>,    \* 19: 230945
    <<189, 46>>,    \* 20: 46189
    <<969, 969>>,    \* 21: 969969
    <<179, 88>>,    \* 22: 88179
    <<117, 28, 2>>,    \* 23: 2028117
    <<39, 676>>,    \* 24: 676039
    <<975, 900, 16>>,    \* 25: 16900975
    <<75, 300, 1>>,    \* 26: 1300075
    <<25, 102, 35>>,    \* 27: 35102025
    <<575, 14, 5>>,    \* 28: 5014575
    <<675, 422, 145>>,    \* 29: 145422675
    <<845, 694, 9>>,    \* 30: 9694845
    <<195, 540, 300>>,    \* 31: 300540195
    <<195, 540, 300>>,    \* 32: 300540195
    <<435, 826, 917, 9>>,    \* 33: 9917826435
    <<555, 401, 583>>,    \* 34: 583401555
    <<425, 54, 419, 20>>,    \* 35: 20419054425
    <<825, 783, 268, 2>>,    \* 36: 2268783825
    <<525, 1, 945, 83>>,    \* 37: 83945001525
    <<975, 157, 418, 4>>,    \* 38: 4418157975
    <<25, 161, 308, 172>>,    \* 39: 172308161025
    <<205, 632, 461, 34>>,    \* 40: 34461632205
    <<405, 920, 926, 412, 1>>,    \* 41: 1412926920405
    <<305, 234, 282, 67>>,    \* 42: 67282234305
    <<115, 75, 136, 893, 2>>,    \* 43: 2893136075115
    <<465, 370, 12, 263>>,    \* 44: 263012370465
    <<925, 670, 556, 835, 11>>,    \* 45: 11835556670925
    <<475, 420, 589, 514>>,    \* 46: 514589420475
    <<325, 762, 702, 185, 24>>,    \* 47: 24185702762325
    <<775, 920, 900, 61, 8>>,    \* 48: 8061900920775
    <<975, 117, 145, 33, 395>>,    \* 49: 395033145117975
    <<719, 804, 325, 801, 15>>,    \* 50: 15801325804719
    <<669, 40, 616, 867, 805>>,    \* 51: 805867616040669
    <<513, 618, 816, 989, 61>>,    \* 52: 61989816618513
    <<189, 781, 280, 460, 285, 3>>,    \* 53: 3285460280781189
    <<7, 103, 714, 683, 121>>,    \* 54: 121683714103007
    <<385, 665, 275, 604, 692, 6>>,    \* 55: 6692604275665385
    <<55, 95, 325, 86, 956>>,    \* 56: 956086325095055
    <<135, 418, 530, 920, 496, 54>>,    \* 57: 54496920530418135
    <<315, 221, 156, 204, 879, 1>>,    \* 58: 1879204156221315
    <<585, 57, 217, 45, 873, 110>>,    \* 59: 110873045217057585
    <<839, 803, 347, 536, 391, 7>>,    \* 60: 7391536347803839
    <<179, 34, 216, 717, 883, 450>>,    \* 61: 450883717216034179
    <<909, 226, 39, 636, 544, 14>>,    \* 62: 14544636039226909
    <<267, 295, 471, 70, 312, 916>>,    \* 63: 916312070471295267
    <<267, 295, 471, 70, 312, 916>>,    \* 64: 916312070471295267
    <<355, 192, 634, 580, 284, 560, 59>>,    \* 65: 59560284580634192355
    <<435, 66, 504, 108, 857, 804, 1>>,    \* 66: 1804857108504066435
    <<145, 451, 772, 269, 426, 925, 120>>,    \* 67: 120925426269772451145
    <<185, 144, 810, 368, 260, 113, 7>>,    \* 68: 7113260368810144185
    <<765, 948, 899, 447, 965, 814, 490>>,    \* 69: 490814965447899948765
    <<679, 855, 82, 727, 284, 23, 14>>,    \* 70: 14023284727082855679
    <<209, 753, 882, 622, 215, 653, 995>>,    \* 71: 995653215622882753209
    <<801, 194, 209, 69, 135, 628, 110>>,    \* 72: 110628135069209194801
    <<473, 220, 271, 52, 860, 853, 75, 8>>,    \* 73: 8075853860052271220473
    <<229, 276, 953, 541, 320, 266, 218>>,    \* 74: 218266320541953276229
    <<175, 717, 495, 646, 40, 974, 369, 16>>,    \* 75: 16369974040646495717175
    <<325, 669, 657, 86, 581, 577, 861>>,    \* 76: 861577581086657669325
    <<25, 538, 640, 672, 743, 473, 341, 66>>,    \* 77: 66341473743672640538025
    <<975, 500, 939, 324, 429, 63, 701, 1>>,    \* 78: 1701063429324939500975
    <<25, 577, 220, 670, 916, 10, 384, 134>>,    \* 79: 134384010916670220577025
    <<405, 115, 44, 334, 183, 802, 876, 26>>,    \* 80: 26876802183334044115405
    <<805, 347, 573, 57, 850, 976, 20, 177, 2>>,    \* 81: 2177020976850057573347805
    <<605, 203, 965, 98, 606, 72, 98, 53>>,    \* 82: 53098072606098965203605
    <<215, 899, 111, 214, 306, 26, 140, 407, 4>>,    \* 83: 4407140026306214111899215
    <<915, 280, 386, 486, 776, 810, 863, 209>>,    \* 84: 209863810776486386280915
    <<775, 877, 833, 342, 1, 916, 423, 838, 17>>,    \* 85: 17838423916001342833877775
    <<925, 66, 717, 984, 813, 67, 847, 414>>,    \* 86: 414847067813984717066925
    <<475, 822, 384, 670, 816, 899, 694, 91, 36>>,    \* 87: 36091694899816670384822475
    <<225, 620, 398, 606, 710, 172, 63, 281, 3>>,    \* 88: 3281063172710606398620225
    <<25, 200, 477, 969, 243, 371, 622, 14, 292>>,    \* 89: 292014622371243969477200025
    <<445, 604, 210, 88, 472, 830, 213, 489, 6>>,    \* 90: 6489213830472088210604445
    <<495, 4, 165, 27, 960, 572, 458, 518, 590>>,    \* 91: 590518458572960027165004495
    <<65, 261, 833, 696, 128, 590, 715, 674, 25>>,    \* 92: 25674715590128696833261065
    <<45, 279, 493, 805, 968, 881, 549, 748, 387, 2>>,    \* 93: 2387748549881968805493279045
    <<235, 644, 329, 570, 786, 635, 160, 803, 50>>,    \* 94: 50803160635786570329644235
    <<325, 202, 316, 181, 724, 399, 260, 300, 826, 4>>,    \* 95: 4826300260399724181316202325
    <<775, 400, 105, 727, 574, 466, 753, 766, 608, 1>>,    \* 96: 1608766753466574727105400775
    <<175, 875, 223, 529, 748, 257, 86, 375, 50, 156>>,    \* 97: 156050375086257748529223875175
    <<575, 303, 841, 112, 607, 372, 532, 701, 184, 3>>,    \* 98: 3184701532372607112841303575
    <<925, 53, 289, 171, 104, 888, 704, 451, 285, 315>>,    \* 99: 315285451704888104171289053925
    <<157, 562, 851, 166, 524, 195, 68, 418, 611, 12>>,    \* 100: 12611418068195524166851562157
    <<857, 777, 7, 852, 940, 747, 887, 224, 753, 273, 1>>,    \* 101: 1273753224887747940852007777857
    <<507, 152, 0, 252, 528, 171, 429, 553, 975, 24>>,    \* 102: 24975553429171528252000152507
    <<221, 708, 15, 956, 409, 667, 204, 3, 482, 572, 2>>,    \* 103: 2572482003204667409956015708221
    <<17, 516, 693, 919, 646, 743, 15, 231, 883, 197>>,    \* 104: 197883231015743646919693516017
    <<785, 181, 819, 567, 926, 82, 653, 256, 739, 777, 20>>,    \* 105: 20777739256653082926567819181785
    <<845, 229, 619, 595, 715, 265, 163, 816, 32, 392>>,    \* 106: 392032816163265715595619229845
    <<415, 593, 257, 731, 568, 431, 469, 329, 511, 947, 41>>,    \* 107: 41947511329469431568731257593415
    <<645, 688, 157, 101, 58, 90, 721, 530, 611, 553, 1>>,    \* 108: 1553611530721090058101157688645
    <<305, 62, 188, 26, 333, 816, 598, 848, 656, 343, 169>>,    \* 109: 169343656848598816333026188062305
    <<951, 782, 839, 236, 24, 433, 65, 579, 975, 78, 3>>,    \* 110: 3078975579065433024236839782951
    <<561, 907, 215, 289, 690, 65, 263, 276, 289, 766, 341>>,    \* 111: 341766289276263065690289215907561
    <<223, 558, 316, 41, 670, 723, 894, 610, 755, 823, 48>>,    \* 112: 48823755610894723670041316558223
    <<199, 79, 771, 668, 714, 774, 103, 31, 384, 84, 517, 5>>,    \* 113: 5517084384031103774714668771079199
    <<407, 808, 925, 888, 152, 838, 808, 105, 954, 790, 96>>,    \* 114: 96790954105808838152888925808407
    <<805, 966, 467, 226, 582, 387, 16, 168, 722, 959, 130, 11>>,    \* 115: 11130959722168016387582226467966805
    <<545, 619, 50, 525, 123, 496, 138, 316, 197, 826, 383>>,    \* 116: 383826197316138496123525050619545
    <<765, 486, 922, 430, 452, 46, 204, 988, 85, 665, 907, 44>>,    \* 117: 44907665085988204046452430922486765
    <<335, 313, 456, 956, 244, 848, 206, 864, 865, 146, 761>>,    \* 118: 761146865864206848244956456313335
    <<865, 286, 301, 818, 149, 941, 614, 840, 37, 477, 576, 90>>,    \* 119: 90576477037840614941149818301286865
    <<791, 85, 220, 321, 743, 662, 707, 522, 802, 431, 38, 6>>,    \* 120: 6038431802522707662743321220085791
    <<711, 380, 630, 867, 941, 191, 627, 247, 105, 248, 650, 730>>,    \* 121: 730650248105247627191941867630380711
    <<651, 481, 141, 719, 818, 822, 157, 758, 919, 872, 977, 11>>,    \* 122: 11977872919758157822818719141481651
    <<73, 243, 402, 454, 702, 206, 412, 253, 130, 369, 278, 473, 1>>,    \* 123: 1473278369130253412206702454402243073
    <<583, 975, 12, 434, 119, 813, 77, 621, 681, 108, 525, 47>>,    \* 124: 47525108681621077813119434012975583
    <<875, 947, 621, 251, 929, 639, 726, 634, 202, 585, 638, 940, 5>>,    \* 125: 5940638585202634726639929251621947875
    <<125, 380, 946, 384, 935, 787, 979, 771, 558, 850, 295, 94>>,    \* 126: 94295850558771979787935384946380125
    <<875, 275, 190, 888, 793, 67, 433, 41, 964, 20, 573, 975, 11>>,    \* 127: 11975573020964041433067793888190275875
    <<875, 275, 190, 888, 793, 67, 433, 41, 964, 20, 573, 975, 11>>    \* 128: 11975573020964041433067793888190275875
>>

\* examples/build.rs: SMALL_SWING, entry i at index i + 1.
SMALL_SWING == <<
    1, 1, 1, 3, 3, 15,
    5, 35, 35, 315, 63, 693,
    231, 3003, 429, 6435, 6435, 109395,
    12155, 230945, 46189, 969969, 88179, 2028117,
    676039, 16900975, 1300075, 35102025, 5014575, 145422675,
    9694845, 300540195, 300540195
>>

\* ------------------------------------------------------------------------
\* The table generator: build.rs and examples/build.rs
\* ------------------------------------------------------------------------

\* The generator's loops stop at the first None; the model also stops them here.
MaxTable == 140

\* prime_swing is called directly with n in 0..MaxSwingN.
MaxSwingN == 136

\* The size of SMALL_SWING.
SmallSwingSize == 33

\* The operand type of the generator.
U128 == 128

\* Whether p is a prime: what the sieve yields.
IsPrime(p) ==
    /\ p >= 2
    /\ \A d \in 2..(p - 1) : d * d > p \/ p % d /= 0

\* The primes that prime_range(sieve, lo, hi) yields.
PrimesIn(lo, hi) == {p \in lo..hi : IsPrime(p)}

\* prime_range(sieve, lo, hi) has a prime left.
HasPrime(lo, hi) == PrimesIn(lo, hi) /= {}

\* The next prime of prime_range(sieve, lo, hi).
NextPrime(lo, hi) ==
    CHOOSE p \in PrimesIn(lo, hi) : \A q \in PrimesIn(lo, hi) : p <= q

\* The square root, one too small.
Isqrt_down(x) == (CHOOSE r \in 0..x : r * r <= x /\ (r + 1) * (r + 1) > x) - 1

\* ((n as f64).sqrt().floor()) as u128, exact for the n of the model.
Isqrt(x) == CHOOSE r \in 0..x : r * r <= x /\ (r + 1) * (r + 1) > x

\* Band A's range starting one too early.
BandAFrom_early(n) == n \div 2

\* prime_range(sieve, n / 2 + 1, n): the lower bound of Band A.
BandAFrom(n) == (n \div 2) + 1

\* prime_range(sieve, sqrt + 1, n / 3): the upper bound of Band B.
BandBTo(n) == n \div 3

\* prime_range(sieve, 3, sqrt): the lower bound of Band C.
BandCFrom == 3

RECURSIVE SmallPrimePower(_, _, _)
\* Band C's loop for one prime, from quotient q and accumulator p: divide, stop
\* at 0, take one more factor when the quotient is odd.
SmallPrimePower(prime, q, p) ==
    LET next == q \div prime
    IN  IF next = 0 THEN p
        ELSE SmallPrimePower(prime, next, IF next % 2 = 1 THEN p * prime ELSE p)

\* The primes each band has visited, in the order of the visits.
NoVisits == [A |-> << >>, B |-> << >>, C |-> << >>]

\* prime_swing(n, sieve), up to the first band, for an operand of b value bits.
SwingEnter(n, b, who) ==
    /\ s_n' = n
    /\ s_bits' = b
    /\ caller' = who
    /\ visited' = NoVisits
    /\ IF n < SmallSwingSize
       THEN /\ s_ret' = Some(BigOf(SMALL_SWING[n + 1]))
            /\ bpc' = "swing_ret"
            /\ UNCHANGED <<product, cursor>>
       ELSE /\ product' = One
            /\ cursor' = BandAFrom(n)
            /\ bpc' = "bandA"
            /\ UNCHANGED s_ret

\* Band A, one prime of prime_range(sieve, n / 2 + 1, n).
BandAStep ==
    /\ bpc = "bandA"
    /\ HasPrime(cursor, s_n)
    /\ LET prime == NextPrime(cursor, s_n)
           r == checked_mul(product, prime, s_bits)
       IN  /\ visited' = [visited EXCEPT !.A = Append(@, prime)]
           /\ cursor' = prime + 1
           /\ IF r.some
              THEN /\ product' = r.val
                   /\ UNCHANGED <<bpc, s_ret>>
              ELSE /\ s_ret' = None
                   /\ bpc' = "swing_ret"
                   /\ UNCHANGED product
    /\ UNCHANGED <<s_n, s_bits, caller>>

\* Band A is done: on to prime_range(sieve, sqrt + 1, n / 3).
BandAEnd ==
    /\ bpc = "bandA"
    /\ ~HasPrime(cursor, s_n)
    /\ cursor' = Isqrt(s_n) + 1
    /\ bpc' = "bandB"
    /\ UNCHANGED <<s_n, s_bits, caller, visited, product, s_ret>>

\* Band B, one prime.
BandBStep ==
    /\ bpc = "bandB"
    /\ HasPrime(cursor, BandBTo(s_n))
    /\ LET prime == NextPrime(cursor, BandBTo(s_n))
           r == checked_mul(product, prime, s_bits)
       IN  /\ visited' = [visited EXCEPT !.B = Append(@, prime)]
           /\ cursor' = prime + 1
           /\ IF (s_n \div prime) % 2 = 1
              THEN IF r.some
                   THEN /\ product' = r.val
                        /\ UNCHANGED <<bpc, s_ret>>
                   ELSE /\ s_ret' = None
                        /\ bpc' = "swing_ret"
                        /\ UNCHANGED product
              ELSE UNCHANGED <<product, bpc, s_ret>>
    /\ UNCHANGED <<s_n, s_bits, caller>>

\* Band B is done: on to prime_range(sieve, 3, sqrt).
BandBEnd ==
    /\ bpc = "bandB"
    /\ ~HasPrime(cursor, BandBTo(s_n))
    /\ cursor' = BandCFrom
    /\ bpc' = "bandC"
    /\ UNCHANGED <<s_n, s_bits, caller, visited, product, s_ret>>

\* Band C, one prime with its inner loop.
BandCStep ==
    /\ bpc = "bandC"
    /\ HasPrime(cursor, Isqrt(s_n))
    /\ LET prime == NextPrime(cursor, Isqrt(s_n))
           p == SmallPrimePower(prime, s_n, 1)
           r == checked_mul(product, p, s_bits)
       IN  /\ visited' = [visited EXCEPT !.C = Append(@, prime)]
           /\ cursor' = prime + 1
           /\ IF p > 1
              THEN IF r.some
                   THEN /\ product' = r.val
                        /\ UNCHANGED <<bpc, s_ret>>
                   ELSE /\ s_ret' = None
                        /\ bpc' = "swing_ret"
                        /\ UNCHANGED product
              ELSE UNCHANGED <<product, bpc, s_ret>>
    /\ UNCHANGED <<s_n, s_bits, caller>>

\* Band C is done: Some(product).
BandCEnd ==
    /\ bpc = "bandC"
    /\ ~HasPrime(cursor, Isqrt(s_n))
    /\ s_ret' = Some(product)
    /\ bpc' = "swing_ret"
    /\ UNCHANGED <<s_n, s_bits, caller, visited, product, cursor>>

\* The bands of prime_swing.
\* prime_swing called on its own with any n.
SwingInvoke ==
    /\ bpc = "idle"
    /\ \E n \in 0..MaxSwingN : SwingEnter(n, U128, "direct")
    /\ UNCHANGED mainvars

\* main: the call of checked_naive_factorial(n) in the first loop.
NaiveCall ==
    /\ bpc = "fact_loop"
    /\ gn <= MaxTable
    /\ f_n' = gn
    /\ f_acc' = One
    /\ f_i' = 2
    /\ bpc' = "naive"
    /\ UNCHANGED <<gn, factorials, prime_swings, f_ret, swingvars>>

\* checked_naive_factorial: one iteration of its loop.
NaiveStep ==
    /\ bpc = "naive"
    /\ f_i <= f_n
    /\ LET r == checked_mul(f_acc, f_i, U128)
       IN  IF r.some
           THEN /\ f_acc' = r.val
                /\ f_i' = f_i + 1
                /\ UNCHANGED <<bpc, f_ret>>
           ELSE /\ f_ret' = None
                /\ bpc' = "fact_ret"
                /\ UNCHANGED <<f_acc, f_i>>
    /\ UNCHANGED <<gn, factorials, prime_swings, f_n, swingvars>>

\* checked_naive_factorial: Some(acc).
NaiveExit ==
    /\ bpc = "naive"
    /\ f_i > f_n
    /\ f_ret' = Some(f_acc)
    /\ bpc' = "fact_ret"
    /\ UNCHANGED <<gn, factorials, prime_swings, f_n, f_acc, f_i, swingvars>>

\* main: the body of the first loop, or its end at the first None.
FactPush ==
    /\ bpc = "fact_ret"
    /\ IF f_ret.some
       THEN /\ factorials' = Append(factorials, f_ret.val)
            /\ gn' = gn + 1
            /\ bpc' = "fact_loop"
       ELSE /\ gn' = 0
            /\ bpc' = "swing_loop"
            /\ UNCHANGED factorials
    /\ UNCHANGED <<prime_swings, f_n, f_acc, f_i, f_ret, swingvars>>

\* main: the call of prime_swing(n, &sieve) in the second loop.
SwingCall ==
    /\ bpc = "swing_loop"
    /\ gn <= MaxTable
    /\ SwingEnter(gn, U128, "main")
    /\ UNCHANGED mainvars

\* main: the body of the second loop, or its end at the first None, after which
\* the file is written.
SwingPush ==
    /\ bpc = "swing_ret"
    /\ caller = "main"
    /\ IF s_ret.some
       THEN /\ prime_swings' = Append(prime_swings, s_ret.val)
            /\ gn' = gn + 1
            /\ bpc' = "swing_loop"
       ELSE /\ bpc' = "written"
            /\ UNCHANGED <<gn, prime_swings>>
    /\ UNCHANGED <<factorials, f_n, f_acc, f_i, f_ret,
                   s_n, s_bits, caller, visited, product, cursor, s_ret>>


\* prime_swing of examples/build.rs as a function of n.
InitSwing == LibIdle /\ GenIdle /\ EngIdle /\ FloatIdle

NextSwing ==
    \/ SwingInvoke /\ UNCHANGED notgen
    \/ BandAStep /\ UNCHANGED <<mainvars, notgen>>
    \/ BandAEnd /\ UNCHANGED <<mainvars, notgen>>
    \/ BandBStep /\ UNCHANGED <<mainvars, notgen>>
    \/ BandBEnd /\ UNCHANGED <<mainvars, notgen>>
    \/ BandCStep /\ UNCHANGED <<mainvars, notgen>>
    \/ BandCEnd /\ UNCHANGED <<mainvars, notgen>>

SpecSwing == InitSwing /\ [][NextSwing]_vars

\* main of the generator.
InitBuild ==
    /\ LibIdle
    /\ EngIdle
    /\ FloatIdle
    /\ bpc = "fact_loop"
    /\ gn = 0
    /\ factorials = << >>
    /\ prime_swings = << >>
    /\ f_n = 0
    /\ f_acc = One
    /\ f_i = 2
    /\ f_ret = None
    /\ s_n = 0
    /\ s_bits = U128
    /\ caller = "none"
    /\ visited = NoVisits
    /\ product = One
    /\ cursor = 0
    /\ s_ret = None

NextBuild ==
    \/ NaiveCall /\ UNCHANGED notgen
    \/ NaiveStep /\ UNCHANGED notgen
    \/ NaiveExit /\ UNCHANGED notgen
    \/ FactPush /\ UNCHANGED notgen
    \/ SwingCall /\ UNCHANGED notgen
    \/ BandAStep /\ UNCHANGED <<mainvars, notgen>>
    \/ BandAEnd /\ UNCHANGED <<mainvars, notgen>>
    \/ BandBStep /\ UNCHANGED <<mainvars, notgen>>
    \/ BandBEnd /\ UNCHANGED <<mainvars, notgen>>
    \/ BandCStep /\ UNCHANGED <<mainvars, notgen>>
    \/ BandCEnd /\ UNCHANGED <<mainvars, notgen>>
    \/ SwingPush /\ UNCHANGED notgen

SpecBuild == InitBuild /\ [][NextBuild]_vars

\* ------------------------------------------------------------------------
\* build.rs: the general prime_swing and main
\* ------------------------------------------------------------------------

\* a.checked_mul(c) for two u128 values.
checked_mul_u128(a, c) ==
    LET prod == BigMul(a, c)
    IN  IF BigLt(prod, TypeLimit(U128)) THEN Some(prod) ELSE None

\* sieve.primes_from(2).take_while(|x| *x < n): the largest candidate.
GeneralTo(n) == n - 1

RECURSIVE GeneralPrimePower(_, _, _)
\* The inner loop for one prime, from quotient q and accumulator p: while q is
\* not 0, divide, and multiply p by the prime, checked, when the quotient is odd.
GeneralPrimePower(prime, q, p) ==
    IF q = 0 THEN Some(p)
    ELSE LET next == q \div prime
             r == IF next % 2 = 1 THEN checked_mul(p, prime, U128) ELSE Some(p)
         IN  IF r.some THEN GeneralPrimePower(prime, next, r.val) ELSE None

\* prime_swing(n, sieve) of build.rs, up to its loop.
GeneralEnter(n, who) ==
    /\ s_n' = n
    /\ s_bits' = U128
    /\ caller' = who
    /\ visited' = NoVisits
    /\ product' = One
    /\ cursor' = 2
    /\ bpc' = "general"
    /\ UNCHANGED s_ret

\* One prime of the loop, with its inner loop.
GeneralStep ==
    /\ bpc = "general"
    /\ HasPrime(cursor, GeneralTo(s_n))
    /\ LET prime == NextPrime(cursor, GeneralTo(s_n))
           p == GeneralPrimePower(prime, s_n, One)
           r == IF p.some THEN checked_mul_u128(product, p.val) ELSE None
       IN  /\ cursor' = prime + 1
           /\ IF p.some /\ ~BigLt(One, p.val)
              THEN UNCHANGED <<product, bpc, s_ret>>
              ELSE IF r.some
                   THEN /\ product' = r.val
                        /\ UNCHANGED <<bpc, s_ret>>
                   ELSE /\ s_ret' = None
                        /\ bpc' = "swing_ret"
                        /\ UNCHANGED product
    /\ UNCHANGED <<s_n, s_bits, caller, visited>>

\* The loop is over: Some(product).
GeneralEnd ==
    /\ bpc = "general"
    /\ ~HasPrime(cursor, GeneralTo(s_n))
    /\ s_ret' = Some(product)
    /\ bpc' = "swing_ret"
    /\ UNCHANGED <<s_n, s_bits, caller, visited, product, cursor>>

\* The general prime_swing called on its own with any n.
GeneralInvoke ==
    /\ bpc = "idle"
    /\ \E n \in 0..MaxSwingN : GeneralEnter(n, "general")
    /\ UNCHANGED mainvars

\* main of build.rs: ./src/array.rs does not exist, the tables are generated.
RootBegin ==
    /\ bpc = "root_start"
    /\ bpc' = "fact_loop"
    /\ UNCHANGED <<mainvars, swingvars>>

\* main of build.rs: ./src/array.rs exists, nothing is generated.
RootSkip ==
    /\ bpc = "root_start"
    /\ bpc' = "skipped"
    /\ UNCHANGED <<mainvars, swingvars>>

\* main of build.rs: the call of prime_swing(n, &sieve) in the second loop.
RootSwingCall ==
    /\ bpc = "swing_loop"
    /\ gn <= MaxTable
    /\ GeneralEnter(gn, "main")
    /\ UNCHANGED mainvars

\* The two prime_swing functions, each called on its own.
InitEvaluators == LibIdle /\ GenIdle /\ EngIdle /\ FloatIdle

NextEvaluators ==
    \/ SwingInvoke /\ UNCHANGED notgen
    \/ BandAStep /\ UNCHANGED <<mainvars, notgen>>
    \/ BandAEnd /\ UNCHANGED <<mainvars, notgen>>
    \/ BandBStep /\ UNCHANGED <<mainvars, notgen>>
    \/ BandBEnd /\ UNCHANGED <<mainvars, notgen>>
    \/ BandCStep /\ UNCHANGED <<mainvars, notgen>>
    \/ BandCEnd /\ UNCHANGED <<mainvars, notgen>>
    \/ GeneralInvoke /\ UNCHANGED notgen
    \/ GeneralStep /\ UNCHANGED <<mainvars, notgen>>
    \/ GeneralEnd /\ UNCHANGED <<mainvars, notgen>>

SpecEvaluators == InitEvaluators /\ [][NextEvaluators]_vars

\* main of build.rs.
InitRoot ==
    /\ LibIdle
    /\ EngIdle
    /\ FloatIdle
    /\ bpc = "root_start"
    /\ gn = 0
    /\ factorials = << >>
    /\ prime_swings = << >>
    /\ f_n = 0
    /\ f_acc = One
    /\ f_i = 2
    /\ f_ret = None
    /\ s_n = 0
    /\ s_bits = U128
    /\ caller = "none"
    /\ visited = NoVisits
    /\ product = One
    /\ cursor = 0
    /\ s_ret = None

NextRoot ==
    \/ RootBegin /\ UNCHANGED notgen
    \/ RootSkip /\ UNCHANGED notgen
    \/ NaiveCall /\ UNCHANGED notgen
    \/ NaiveStep /\ UNCHANGED notgen
    \/ NaiveExit /\ UNCHANGED notgen
    \/ FactPush /\ UNCHANGED notgen
    \/ RootSwingCall /\ UNCHANGED notgen
    \/ GeneralStep /\ UNCHANGED <<mainvars, notgen>>
    \/ GeneralEnd /\ UNCHANGED <<mainvars, notgen>>
    \/ SwingPush /\ UNCHANGED notgen

SpecRoot == InitRoot /\ [][NextRoot]_vars

\* ------------------------------------------------------------------------
\* The recursive factorial engine (specification, sections 4.1 and 4.2)
\* ------------------------------------------------------------------------

\* The engine is called with n in 0..MaxEngineN.
MaxEngineN == 140

\* The value bits of an operand type of arbitrary magnitude.
Unbounded == 0

\* The operand types of the engine: u128 and integers of arbitrary magnitude.
EngineTypes == {U128, Unbounded}

\* The table threshold of the recurrence: the size of SMALL_FACTORIAL.
FactorialTableSize == Len(SMALL_FACTORIAL)

\* The swing-table threshold: the size of SMALL_PRIME_SWING.
SwingTableSize == Len(SMALL_PRIME_SWING)

\* The checked product of two values of an operand type of b value bits.
checked_mul_big(a, c, b) ==
    LET prod == BigMul(a, c)
    IN  IF b = Unbounded \/ BigLt(prod, TypeLimit(b)) THEN Some(prod) ELSE None

\* The argument of the call that is running or waiting on top.
Current == e_stack[Len(e_stack)]

\* The call on top returns v: to its caller, or to the caller of the engine.
EngineReturn(v) ==
    /\ e_val' = v
    /\ e_stack' = SubSeq(e_stack, 1, Len(e_stack) - 1)
    /\ IF Len(e_stack) = 1
       THEN /\ e_ret' = Some(v)
            /\ epc' = "done"
       ELSE /\ epc' = "swing"
            /\ UNCHANGED e_ret

\* A checked multiplication failed: the entire call fails with no result.
EngineFail ==
    /\ e_ret' = None
    /\ epc' = "done"
    /\ UNCHANGED <<e_stack, e_val>>

\* A call of the engine with n, for an operand type of b value bits.
EngineCall ==
    /\ epc = "idle"
    /\ \E n \in 0..MaxEngineN, b \in EngineTypes :
          /\ e_n' = n
          /\ e_bits' = b
          /\ e_stack' = <<n>>
    /\ epc' = "call"
    /\ UNCHANGED <<e_val, e_ret, genvars, libvars, floatvars>>

\* Base case: factorial(n) is a table lookup for n below the table threshold.
EngineBase ==
    /\ epc = "call"
    /\ Current < FactorialTableSize
    /\ EngineReturn(SMALL_FACTORIAL[Current + 1])
    /\ UNCHANGED <<e_n, e_bits, genvars, libvars, floatvars>>

\* The recurrence: the nested call factorial(floor(n / 2)).
EngineDescend ==
    /\ epc = "call"
    /\ Current >= FactorialTableSize
    /\ e_stack' = Append(e_stack, Current \div 2)
    /\ UNCHANGED <<epc, e_n, e_bits, e_val, e_ret, genvars, libvars, floatvars>>

\* The sub-result is squared and multiplied by swing(n), a table lookup for n
\* below the swing-table threshold.
EngineTableSwing ==
    /\ epc = "swing"
    /\ Current < SwingTableSize
    /\ LET sq == checked_mul_big(e_val, e_val, e_bits)
           r == IF sq.some
                THEN checked_mul_big(sq.val, SMALL_PRIME_SWING[Current + 1], e_bits)
                ELSE None
       IN  IF r.some THEN EngineReturn(r.val) ELSE EngineFail
    /\ UNCHANGED <<e_n, e_bits, genvars, libvars, floatvars>>

\* Above the swing-table threshold swing(n) is computed by the Swing Evaluator.
EngineSwingCall ==
    /\ epc = "swing"
    /\ Current >= SwingTableSize
    /\ bpc = "idle"
    /\ SwingEnter(Current, U128, "engine")
    /\ epc' = "await"
    /\ UNCHANGED <<e_n, e_bits, e_stack, e_val, e_ret, mainvars, libvars, floatvars>>

\* The Swing Evaluator has returned: no result fails the call, a value is
\* multiplied into the squared sub-result.
EngineCombine ==
    /\ epc = "await"
    /\ bpc = "swing_ret"
    /\ caller = "engine"
    /\ LET sq == checked_mul_big(e_val, e_val, e_bits)
           r == IF s_ret.some /\ sq.some
                THEN checked_mul_big(sq.val, s_ret.val, e_bits)
                ELSE None
       IN  IF r.some THEN EngineReturn(r.val) ELSE EngineFail
    /\ bpc' = "idle"
    /\ UNCHANGED <<e_n, e_bits, gn, factorials, prime_swings, f_n, f_acc, f_i, f_ret,
                   swingvars, libvars, floatvars>>

InitEngine == LibIdle /\ GenIdle /\ EngIdle /\ FloatIdle

NextEngine ==
    \/ EngineCall
    \/ EngineBase
    \/ EngineDescend
    \/ EngineTableSwing
    \/ EngineSwingCall
    \/ EngineCombine
    \/ BandAStep /\ UNCHANGED <<mainvars, notgen>>
    \/ BandAEnd /\ UNCHANGED <<mainvars, notgen>>
    \/ BandBStep /\ UNCHANGED <<mainvars, notgen>>
    \/ BandBEnd /\ UNCHANGED <<mainvars, notgen>>
    \/ BandCStep /\ UNCHANGED <<mainvars, notgen>>
    \/ BandCEnd /\ UNCHANGED <<mainvars, notgen>>

SpecEngine == InitEngine /\ [][NextEngine]_vars

\* ------------------------------------------------------------------------
\* FloatDoubleFactorial (lib.rs), for T = f32
\* ------------------------------------------------------------------------

\* Integer operands range over -MaxFloatN..MaxFloatN (below 2^7, so that the
\* products of FMulSmall stay below 2^31).
MaxFloatN == 60

\* 3.4 as an f32: 14260634 * 2^(-22).
ThreePointFour == [cls |-> "fin", neg |-> FALSE, m |-> 14260634, e |-> -22]

\* The operands: the integers, -0.0, some halves, 3.4, the infinities and NaN.
FloatOperands ==
    {FromInt(k) : k \in (-MaxFloatN)..MaxFloatN}
        \cup {Normalize(s, 2 * k + 1, -1) : k \in 0..3, s \in BOOLEAN}
        \cup {FZero(TRUE), ThreePointFour, FInf(FALSE), FInf(TRUE), FNaN}

\* Option::expect on an Option<T>.
fexpect(opt, msg) ==
    IF opt.some
    THEN [kind |-> "value", val |-> opt.val, msg |-> ""]
    ELSE [kind |-> "panic", val |-> FZero(FALSE), msg |-> msg]

\* The operand of the loop that runs: self, or -self in the nested call
\* (-*self).double_factorial() of the negative odd case.
LoopOperand == IF FNegative(d_self) THEN FNeg(d_self) ELSE d_self

\* *self * (-one).powf((*self - one) / two) / df, where df is what
\* (-*self).double_factorial() returned; self - one, the division by two and the
\* product with +-1 are exact.
NegativeOdd(x, df) ==
    LET sign == PowNegOne((ToInt(x) - 1) \div 2)
    IN  FDiv(IF sign = 1 THEN x ELSE FNeg(x), df)

\* A call of checked_double_factorial or double_factorial up to the loop: None
\* for an operand with a fractional part and for a negative even one.
FloatCall(en, x) ==
    /\ d_entry' = en
    /\ d_self' = x
    /\ d_outcome' = [kind |-> "pending", val |-> FZero(FALSE), msg |-> ""]
    /\ IF FractNonZero(x) \/ (FNegative(x) /\ FEven(x))
       THEN /\ d_checked' = FNone
            /\ dpc' = "returned"
            /\ UNCHANGED <<d_acc, d_i>>
       ELSE /\ d_acc' = FromInt(1)
            /\ d_i' = IF FEven(x) THEN FromInt(2) ELSE FromInt(1)
            /\ dpc' = "loop"
            /\ UNCHANGED d_checked
    /\ UNCHANGED <<libvars, genvars, engvars>>

\* One iteration of the while loop: acc = acc * i; i = i + two (exact).
FloatLoopStep ==
    /\ dpc = "loop"
    /\ ToInt(d_i) <= ToInt(LoopOperand)
    /\ d_acc' = FMulSmall(d_acc, ToInt(d_i))
    /\ d_i' = FromInt(ToInt(d_i) + 2)
    /\ UNCHANGED <<dpc, d_entry, d_self, d_checked, d_outcome>>
    /\ UNCHANGED <<libvars, genvars, engvars>>

\* The loop ends with Some(acc): the result for a non-negative operand, and for
\* a negative odd one the divisor, which double_factorial unwraps.
FloatLoopExit ==
    /\ dpc = "loop"
    /\ ToInt(d_i) > ToInt(LoopOperand)
    /\ d_checked' = IF FNegative(d_self)
                    THEN [some |-> TRUE, val |-> NegativeOdd(d_self, d_acc)]
                    ELSE [some |-> TRUE, val |-> d_acc]
    /\ dpc' = "returned"
    /\ UNCHANGED <<d_entry, d_self, d_acc, d_i, d_outcome>>
    /\ UNCHANGED <<libvars, genvars, engvars>>

\* checked_double_factorial hands its Option to the caller.
FloatReturnChecked ==
    /\ dpc = "returned"
    /\ d_entry = "checked"
    /\ d_outcome' = [kind |-> "option", val |-> d_checked.val, msg |-> ""]
    /\ dpc' = "done"
    /\ UNCHANGED <<d_entry, d_self, d_acc, d_i, d_checked>>
    /\ UNCHANGED <<libvars, genvars, engvars>>

\* double_factorial: expect on the checked result.
FloatReturnUnchecked ==
    /\ dpc = "returned"
    /\ d_entry = "unchecked"
    /\ d_outcome' = fexpect(d_checked, DoubleFactorialMsg)
    /\ dpc' = "done"
    /\ UNCHANGED <<d_entry, d_self, d_acc, d_i, d_checked>>
    /\ UNCHANGED <<libvars, genvars, engvars>>

\* A caller makes one call.
FloatInvoke ==
    /\ dpc = "idle"
    /\ \E en \in {"checked", "unchecked"}, x \in FloatOperands : FloatCall(en, x)

InitFloat == LibIdle /\ GenIdle /\ EngIdle /\ FloatIdle

NextFloat ==
    \/ FloatInvoke
    \/ FloatLoopStep
    \/ FloatLoopExit
    \/ FloatReturnChecked
    \/ FloatReturnUnchecked

SpecFloat == InitFloat /\ [][NextFloat]_vars

\* ------------------------------------------------------------------------
\* The mathematical functions the entry points are to compute
\* ------------------------------------------------------------------------

RECURSIVE ProductOf(_, _, _)
\* The product of the count terms first, first + step, first + 2 * step, ...,
\* taken by halves.
ProductOf(first, count, step) ==
    IF count <= 0 THEN One
    ELSE IF count = 1 THEN BigOf(first)
    ELSE LET h == count \div 2
         IN  BigMul(ProductOf(first, h, step),
                    ProductOf(first + h * step, count - h, step))

\* n! = 1 * 2 * ... * n.
Factorial(x) == ProductOf(1, x, 1)

\* n!!: the product of the integers of [1, n] of the parity of n.
DoubleFactorial(x) ==
    IF x % 2 = 0 THEN ProductOf(2, x \div 2, 2) ELSE ProductOf(1, (x + 1) \div 2, 2)

\* Some(v) when v fits b value bits, else None.
IfFits(v, b) == IF BigLt(v, TypeLimit(b)) THEN Some(v) ELSE None

RECURSIVE UnsignedLoop(_, _, _, _, _)
\* The loop of the unsigned implementations run to its end from (a, k), with
\* index step s, on operand x in a type of b value bits.
UnsignedLoop(a, k, x, s, b) ==
    IF k <= x
    THEN LET acc_i == checked_mul(a, k, b)
         IN  IF acc_i.some THEN UnsignedLoop(acc_i.val, k + s, x, s, b) ELSE None
    ELSE Some(a)

\* The checked entry point has returned.
HasReturned == pc \in {"returned", "done"}

\* ------------------------------------------------------------------------
\* Claims on lib.rs
\* ------------------------------------------------------------------------

\* C1: for every unsigned width and operand n, checked_factorial(n) is Some(n!)
\* exactly when n! is at most the type's maximum, and None otherwise; 0 and 1 give
\* Some(1); for 32 bits, 12 gives Some(479001600) and every n >= 13 gives None.
C1_CheckedFactorial ==
    (HasReturned /\ trait = "UnsignedFactorial") =>
        /\ checked = IfFits(Factorial(self), bits)
        /\ self \in {0, 1} => checked = Some(One)
        /\ (bits = 32 /\ self = 12) => checked = Some(BigOf(479001600))
        /\ (bits = 32 /\ self >= 13) => checked = None

C1_Witness ==
    /\ HasReturned
    /\ trait = "UnsignedFactorial"
    /\ bits = 32
    /\ self = 12
    /\ checked = Some(BigOf(479001600))

\* C2: factorial(n) returns v whenever checked_factorial(n) = Some(v) and panics
\* with "Overflow computing factorial" exactly when it is None; double_factorial
\* does the same with "Overflow computing double factorial"; neither returns a
\* value when the checked entry point returned None.
C2_Unchecked ==
    (pc = "done" /\ entry = "unchecked") =>
        /\ checked.some => outcome = [kind |-> "value", val |-> checked.val, msg |-> ""]
        /\ ~checked.some =>
              /\ outcome.kind = "panic"
              /\ ~IsDouble(trait) => outcome.msg = "Overflow computing factorial"
              /\ IsDouble(trait) => outcome.msg = "Overflow computing double factorial"
        /\ outcome.kind = "panic" => ~checked.some
        /\ outcome.kind = "value" => checked.some

C2_Witness ==
    /\ pc = "done"
    /\ entry = "unchecked"
    /\ trait = "UnsignedDoubleFactorial"
    /\ bits = 32
    /\ self = TooLarge
    /\ outcome.kind = "panic"
    /\ outcome.msg = "Overflow computing double factorial"

\* C3: for every unsigned n, checked_double_factorial(n) is Some of the product of
\* the integers of [1, n] of the parity of n when that product fits the type, and
\* None otherwise; 10 gives 3840 and 7 gives 105 (where they fit), 0 gives 1, and
\* 100 gives None for 32 bits.
C3_CheckedDoubleFactorial ==
    (HasReturned /\ trait = "UnsignedDoubleFactorial") =>
        /\ checked = IfFits(DoubleFactorial(self), bits)
        /\ (self = 10 /\ bits >= 16) => checked = Some(BigOf(3840))
        /\ self = 7 => checked = Some(BigOf(105))
        /\ self = 0 => checked = Some(One)
        /\ (self = 100 /\ bits = 32) => checked = None

C3_Witness ==
    /\ HasReturned
    /\ trait = "UnsignedDoubleFactorial"
    /\ bits = 32
    /\ self = 7
    /\ checked = Some(BigOf(105))

\* C4: the signed implementations return None for every n < 0, and for n >= 0
\* what the unsigned algorithm returns on the same value in a type whose maximum
\* is that of the signed type.
C4_Signed ==
    (HasReturned /\ IsSigned(trait)) =>
        /\ self < 0 => checked = None
        /\ self >= 0 =>
              checked = UnsignedLoop(One, StartIndex(trait, self), self,
                                     IndexStep(trait), bits - 1)

C4_Witness ==
    /\ HasReturned
    /\ trait = "SignedDoubleFactorial"
    /\ self = -3
    /\ checked = None

\* ------------------------------------------------------------------------
\* The swing as the specification defines it
\* ------------------------------------------------------------------------

RECURSIVE Quotient(_, _, _)
\* floor(n / p^k), by k divisions.
Quotient(n, p, k) == IF k = 0 THEN n ELSE Quotient(n, p, k - 1) \div p

\* The number of k >= 1 for which floor(n / p^k) is odd (the quotient is 0 from
\* k = BitLen(n) on).
OddQuotients(n, p) ==
    IF n = 0 THEN 0
    ELSE Cardinality({k \in 1..BitLen(n) : Quotient(n, p, k) % 2 = 1})

RECURSIVE SwingOver(_, _, _)
\* The product over the primes p of lo..hi of p^OddQuotients(n, p), by halves.
SwingOver(n, lo, hi) ==
    IF lo > hi THEN One
    ELSE IF lo = hi
         THEN IF IsPrime(lo) THEN BigOf(lo^OddQuotients(n, lo)) ELSE One
         ELSE LET mid == (lo + hi) \div 2
              IN  BigMul(SwingOver(n, lo, mid), SwingOver(n, mid + 1, hi))

\* swing(n): the product over all primes p <= n.
Swing(n) == SwingOver(n, 2, n)

\* The odd swing: the product over the odd primes p <= n.
OddSwing(n) == SwingOver(n, 3, n)

\* The elements of a sequence.
Range(seq) == {seq[k] : k \in 1..Len(seq)}

\* No element of the sequence occurs twice.
NoRepeat(seq) == \A j, k \in 1..Len(seq) : seq[j] = seq[k] => j = k

\* prime_swing has returned a value computed by the bands.
BandsReturned == bpc = "swing_ret" /\ s_n >= SmallSwingSize /\ s_ret.some

\* ------------------------------------------------------------------------
\* Claims on the table generator
\* ------------------------------------------------------------------------

\* The first loop of main is over.
FactorialsDone == bpc \notin {"idle", "fact_loop", "naive", "fact_ret"}

\* C7: SMALL_FACTORIAL has 35 entries, entry 0 is 1, entry i is i times entry
\* i - 1 and is i!; the generating loop appends checked_naive_factorial(n) for
\* n = 0, 1, 2, ... and stops at the first None, which is at n = 35, so that the
\* generated vector is the table and holds exactly the factorials below 2^128.
C7_SmallFactorial ==
    /\ Len(factorials) <= Len(SMALL_FACTORIAL)
    /\ bpc = "fact_loop" =>
          /\ gn = Len(factorials)
          /\ gn > 0 => factorials[gn] = Factorial(gn - 1)
          /\ \A k \in 1..Len(factorials) :
                /\ factorials[k] = SMALL_FACTORIAL[k]
                /\ k = 1 => factorials[k] = One
                /\ k > 1 => factorials[k] = BigMulSmall(factorials[k - 1], k - 1)
    /\ FactorialsDone =>
          /\ factorials = SMALL_FACTORIAL
          /\ Len(factorials) = 35
          /\ f_n = 35
          /\ f_ret = None
          /\ BigLt(Factorial(34), TypeLimit(U128))
          /\ ~BigLt(Factorial(35), TypeLimit(U128))

C7_Witness ==
    /\ bpc = "swing_loop"
    /\ gn = 0
    /\ Len(factorials) = 35
    /\ factorials[35] = Factorial(34)
    /\ f_ret = None

C10_BandedSwing ==
    BandsReturned =>
        /\ s_ret.val = OddSwing(s_n)
        /\ \A p \in Range(visited.A) : OddQuotients(s_n, p) = 1
        /\ \A p \in Range(visited.B) :
              OddQuotients(s_n, p) = (IF (s_n \div p) % 2 = 1 THEN 1 ELSE 0)
        /\ \A p \in PrimesIn((s_n \div 3) + 1, s_n \div 2) :
              /\ OddQuotients(s_n, p) = 0
              /\ p \notin Range(visited.A \o visited.B \o visited.C)

C10_Witness ==
    /\ BandsReturned
    /\ s_n = 49
    /\ 7 \in Range(visited.C)
    /\ s_ret = Some(<<975, 117, 145, 33, 395>>)

\* ------------------------------------------------------------------------
\* Claims on FloatDoubleFactorial
\* ------------------------------------------------------------------------

\* 2^k.
BigPow2(k) == ProductOf(2, k, 0)

\* |v * n!! - (-1)^((n - 1) / 2) * n| <= n * 2^(-22): v has the sign of
\* (-1)^((n - 1) / 2), and |v| * n!! is n to within the rounding of the type,
\* with v = m * 2^e taken exactly.
NearReciprocal(v, n) ==
    /\ v.cls = "fin"
    /\ v.neg = (((n - 1) \div 2) % 2 = 1)
    /\ LET up == IF v.e > 0 THEN v.e ELSE 0
           down == IF v.e < 0 THEN -v.e ELSE 0
           lhs == BigMul(BigMul(BigMul(BigOf(v.m), BigPow2(up)), DoubleFactorial(n)),
                         BigPow2(22))
           rhs == BigMul(BigOf(n), BigPow2(down + 22))
           tol == BigMul(BigOf(n), BigPow2(down))
       IN  /\ BigLeq(lhs, BigAdd(rhs, tol))
           /\ BigLeq(rhs, BigAdd(lhs, tol))

\* checked_double_factorial has returned.
FloatReturned == dpc \in {"returned", "done"}

\* The operand is a negative integer.
NegativeInteger == d_self.cls = "fin" /\ d_self.neg /\ ~FractNonZero(d_self)

\* C8: for a floating-point operand, checked_double_factorial returns None when
\* the operand has a non-zero fractional part and when it is a negative even
\* integer; for a negative odd integer -n it returns Some(v) with
\* v * n!! = (-1)^((n - 1) / 2) * n, here up to the rounding of the type;
\* double_factorial panics with "Overflow computing double factorial" in the
\* None cases.
C8_FloatNegative ==
    /\ (FloatReturned /\ d_self.cls = "fin" /\ FractNonZero(d_self)) =>
          d_checked = FNone
    /\ (FloatReturned /\ NegativeInteger /\ ToInt(d_self) % 2 = 0) =>
          d_checked = FNone
    /\ (FloatReturned /\ NegativeInteger /\ ToInt(d_self) % 2 = 1) =>
          /\ d_checked.some
          /\ NearReciprocal(d_checked.val, -ToInt(d_self))
    /\ (dpc = "done" /\ d_entry = "unchecked" /\ ~d_checked.some) =>
          /\ d_outcome.kind = "panic"
          /\ d_outcome.msg = "Overflow computing double factorial"

\* ------------------------------------------------------------------------
\* Claims on the tables and the recurrence
\* ------------------------------------------------------------------------

\* C5: when the recurrence factorial(n) = factorial(floor(n / 2))^2 * swing(n),
\* with the base case and the swing taken from the tables below their sizes and
\* the swing from prime_swing above, returns a value for an n at or above the
\* size of the factorial table, the value is n! = 1 * 2 * ... * n.
C5_Recurrence ==
    (epc = "done" /\ e_ret.some /\ e_n >= FactorialTableSize) =>
        e_ret.val = Factorial(e_n)

\* C6: for every index i in [0, 129), SMALL_PRIME_SWING[i], which the generator
\* reproduces as prime_swing(i), is swing(i): the product over all primes p <= i
\* of p to the number of k >= 1 with floor(i / p^k) odd, which is
\* i! / (floor(i / 2)!)^2.
C6_SmallPrimeSwing ==
    /\ bpc = "swing_loop" =>
          \A k \in 1..Len(prime_swings) :
              /\ prime_swings[k] = SMALL_PRIME_SWING[k]
              /\ SMALL_PRIME_SWING[k] = Swing(k - 1)
              /\ BigMul(SMALL_PRIME_SWING[k],
                        BigMul(Factorial((k - 1) \div 2), Factorial((k - 1) \div 2)))
                    = Factorial(k - 1)
    /\ bpc = "written" => Len(prime_swings) = 129

\* ------------------------------------------------------------------------
\* Claims on the multiplications of the swing evaluators
\* ------------------------------------------------------------------------

RECURSIVE PowerProduct(_, _, _, _)
\* The exact product of p^OddQuotients(n, p) over the primes p = seq[lo..hi], by
\* halves.
PowerProduct(n, seq, lo, hi) ==
    IF lo > hi THEN One
    ELSE IF lo = hi THEN BigOf(seq[lo]^OddQuotients(n, seq[lo]))
    ELSE LET mid == (lo + hi) \div 2
         IN  BigMul(PowerProduct(n, seq, lo, mid), PowerProduct(n, seq, mid + 1, hi))

\* The banded prime_swing is running or has returned, past its table.
InBands ==
    /\ s_n >= SmallSwingSize
    /\ \/ bpc \in {"bandA", "bandB", "bandC"}
       \/ bpc = "swing_ret" /\ caller = "direct"

\* The general prime_swing is running or has returned.
InGeneral == bpc = "general" \/ (bpc = "swing_ret" /\ caller = "general")

\* prime_swing has returned None.
ReturnedNone == bpc = "swing_ret" /\ ~s_ret.some

\* The primes the general prime_swing has taken from the sieve so far, in order.
GeneralVisited ==
    LET ps == PrimesIn(2, cursor - 1)
    IN  [k \in 1..Cardinality(ps) |->
            CHOOSE p \in ps : Cardinality({q \in ps : q < p}) = k - 1]

\* The primes visited so far, and those whose factor is in product: all of
\* them, but for the last one when its multiplication returned None.
AllVisited ==
    IF InGeneral THEN GeneralVisited ELSE visited.A \o visited.B \o visited.C

Multiplied ==
    IF ReturnedNone THEN SubSeq(AllVisited, 1, Len(AllVisited) - 1) ELSE AllVisited

\* C11: the product of prime_swing is never a wrapped value: it is below 2^128
\* and is the exact product of the factors multiplied in so far; a value
\* returned is that product; None is returned exactly at the first factor whose
\* exact product with it is 2^128 or more; and the per-prime accumulator p of
\* Band C, and of the general loop, is at most n, so that its multiplication
\* cannot overflow (the checked one of the general loop never fails).
C11_CheckedProducts ==
    (InBands \/ InGeneral) =>
        /\ BigLt(product, TypeLimit(U128))
        /\ product = PowerProduct(s_n, Multiplied, 1, Len(Multiplied))
        /\ (bpc = "swing_ret" /\ s_ret.some) => s_ret.val = product
        /\ ReturnedNone =>
              LET last == AllVisited[Len(AllVisited)]
              IN  ~BigLt(BigMul(product, BigOf(last^OddQuotients(s_n, last))),
                         TypeLimit(U128))
        /\ InBands =>
              \A prime \in Range(visited.C) :
                  /\ SmallPrimePower(prime, s_n, 1) <= s_n
                  /\ SmallPrimePower(prime, s_n, 1) = prime^OddQuotients(s_n, prime)
        /\ InGeneral =>
              \A k \in 1..Len(GeneralVisited) :
                  LET p == GeneralPrimePower(GeneralVisited[k], s_n, One)
                  IN  /\ p.some
                      /\ BigLeq(p.val, BigOf(s_n))

C11_Witness ==
    /\ InBands
    /\ ReturnedNone
    /\ s_n = 129
    /\ visited.C = <<3, 5, 7, 11>>
    /\ SmallPrimePower(3, s_n, 1) = 9

\* ------------------------------------------------------------------------
\* Claims on the agreement of the generators and the table
\* ------------------------------------------------------------------------

\* C12: for every n in [0, 129), prime_swing(n) of build.rs and prime_swing(n)
\* of examples/build.rs both return SMALL_PRIME_SWING[n], and both return None
\* at n = 129, where the loops of the two generators stop.
C12_GeneratorsAgree ==
    (bpc = "swing_ret" /\ caller \in {"direct", "general"}) =>
        /\ s_n < SwingTableSize => s_ret = Some(SMALL_PRIME_SWING[s_n + 1])
        /\ s_n = SwingTableSize => s_ret = None

\* ------------------------------------------------------------------------
\* lib.rs: calls with operands at the top of the operand type
\* ------------------------------------------------------------------------

\* How far below the type's maximum the large operands of a call go.
NearMax == 1

\* The maximum of the operand type, for the types whose maximum the integers of
\* the model hold (u8, i8, u16, i16, i32); for the wider types the largest
\* integer of the model, 2^31 - 1, stands for it: the loops read self only in
\* the test i <= self.
MaxOperand(t, w) ==
    LET b == ValueBits(t, w)
    IN  IF b <= 30 THEN 2^b - 1 ELSE 2147483647

\* The operands a call is made with, those next to the type's maximum included.
LargeOperands(t, w) ==
    Operands(t) \cup {MaxOperand(t, w) - k : k \in 0..NearMax}

\* A caller makes one call, of any implementation, entry point and width, with
\* an operand that may be the largest of the type.
InvokeLarge ==
    /\ pc = "idle"
    /\ \E t \in Traits, e \in {"checked", "unchecked"}, w \in Widths :
          \E x \in LargeOperands(t, w) : Call(t, e, w, x)

NextLarge ==
    \/ InvokeLarge
    \/ LoopStep
    \/ LoopExit
    \/ ReturnChecked
    \/ ReturnUnchecked

\* What an iteration of the while loop does to the control of the call: the
\* loop is left with None, or the index advances. Between Call and the return
\* these are the steps of LoopStep, which is enabled exactly when this is.
Iteration ==
    /\ pc = "loop"
    /\ i <= self
    /\ \/ pc' = "returned" /\ i' = i
       \/ pc' = "loop" /\ i' = i + IndexStep(trait)

\* A call that has entered its loop keeps running: an iteration that can be
\* executed is executed, and so is the exit of the loop.
SpecLarge ==
    /\ Init
    /\ [][NextLarge]_vars
    /\ WF_<<pc, i>>(Iteration)
    /\ WF_vars(LoopExit)

\* ------------------------------------------------------------------------
\* Claims on the termination of the loops of lib.rs
\* ------------------------------------------------------------------------

\* The index after the update i + 1 or i + 2 is a value of the operand type.
NextIndexFits ==
    BigLt(BigOf(i + IndexStep(trait)), TypeLimit(ValueBits(trait, bits)))

\* C13: for every integer type and every operand up to and including the type's
\* maximum, every iteration of the loops of checked_factorial and
\* checked_double_factorial either returns None because the checked
\* multiplication failed, or updates the index to i + 1 or i + 2 with a result
\* the type still holds; and every loop entered is left, with a returned Option.
C13_LoopsTerminate ==
    /\ [][LoopStep =>
            \/ checked' = None /\ pc' = "returned" /\ i' = i
            \/ pc' = "loop" /\ i' = i + IndexStep(trait) /\ NextIndexFits]_vars
    /\ (pc = "loop") ~> (pc = "returned")

C13_Witness ==
    /\ pc = "returned"
    /\ trait = "UnsignedDoubleFactorial"
    /\ bits = 8
    /\ self = 255
    /\ acc = BigOf(105)
    /\ i = 9
    /\ checked = None

====
